---------------------------- MODULE Spec2Model ----------------------------
(***************************************************************************)
(* A model of the lox-rust front end and evaluator:                        *)
(*   scanner.rs  Scanner      source text -> tokens                        *)
(*   parser.rs   Parser       tokens -> expression tree                    *)
(*   core.rs     Expr impls   expression tree -> runtime value             *)
(*   error.rs    report       diagnostics written to stderr                *)
(*                                                                         *)
(* Characters are one-character strings, texts are sequences of them.      *)
(* An f64 is a sign and a fraction n/d (d = 0 for the infinities and NaN); *)
(* arithmetic is exact, so rounding of results that are not representable  *)
(* in binary64 is outside the model.                                       *)
(***************************************************************************)
EXTENDS Integers, Sequences, FiniteSets, TLC

VARIABLES
    source,   \* run_file's source: the text being scanned
    scanner,  \* the Scanner's fields: reader, tokens, start, current, line
    parser,   \* the Parser's fields: tokens (the borrowed vector), reader, current
    parsed,   \* what parser.parse() returned: [state, expr]
    result,   \* what expr.interpret() returned: [state, val, token]
    stderr,   \* the diagnostics written by error.rs
    pc,       \* where run_file is: "scan", "new_parser", "parse", "interpret", "done"
    printed   \* the trees formatted with "{}" so far, each with its text

vars == <<source, scanner, parser, parsed, result, stderr, pc, printed>>

(***************************************************************************)
(* Bounds of the checked input spaces.                                     *)
(***************************************************************************)
MaxSrcLen == 5
MaxTokens == 5
MaxNodes == 5
MaxDisplayNodes == 3

(***************************************************************************)
(* Generic helpers.                                                        *)
(***************************************************************************)
Min(a, b) == IF a < b THEN a ELSE b

Abs(a) == IF a < 0 THEN 0 - a ELSE a

RECURSIVE Gcd(_, _)
Gcd(a, b) == IF b = 0 THEN a ELSE Gcd(b, a % b)

RECURSIVE Pow10(_)
Pow10(k) == IF k = 0 THEN 1 ELSE 10 * Pow10(k - 1)

\* source.chars().skip(k).take(n).collect()
SkipTake(text, k, n) ==
    IF n <= 0 \/ k >= Len(text) THEN <<>>
    ELSE SubSeq(text, k + 1, Min(Len(text), k + n))

(***************************************************************************)
(* f64                                                                     *)
(***************************************************************************)
F64Norm(s, n, d) ==
    IF n = 0 THEN [sgn |-> s, n |-> 0, d |-> 1]
    ELSE LET g == Gcd(n, d) IN [sgn |-> s, n |-> n \div g, d |-> d \div g]

F64(i) == [sgn |-> IF i < 0 THEN -1 ELSE 1, n |-> Abs(i), d |-> 1]

F64NaN == [sgn |-> 1, n |-> 0, d |-> 0]

F64Inf(s) == [sgn |-> s, n |-> 1, d |-> 0]

IsNaN(x) == x.d = 0 /\ x.n = 0

IsInf(x) == x.d = 0 /\ x.n = 1

IsZero(x) == x.d = 1 /\ x.n = 0

\* The signed numerator of a finite x over the common denominator x.d * y.d.
F64Num(x, y) == x.sgn * x.n * y.d

F64Add(a, b) ==
    IF IsNaN(a) \/ IsNaN(b) THEN F64NaN
    ELSE IF IsInf(a) /\ IsInf(b) THEN (IF a.sgn = b.sgn THEN a ELSE F64NaN)
    ELSE IF IsInf(a) THEN a
    ELSE IF IsInf(b) THEN b
    ELSE LET num == F64Num(a, b) + F64Num(b, a)
         IN  IF num = 0
             THEN [sgn |-> IF a.sgn = -1 /\ b.sgn = -1 THEN -1 ELSE 1, n |-> 0, d |-> 1]
             ELSE F64Norm(IF num < 0 THEN -1 ELSE 1, Abs(num), a.d * b.d)

F64Flip(a) == IF IsNaN(a) THEN a ELSE [a EXCEPT !.sgn = 0 - a.sgn]

F64Sub(a, b) == F64Add(a, F64Flip(b))

F64Mul(a, b) ==
    IF IsNaN(a) \/ IsNaN(b) THEN F64NaN
    ELSE IF IsInf(a) \/ IsInf(b)
         THEN (IF IsZero(a) \/ IsZero(b) THEN F64NaN ELSE F64Inf(a.sgn * b.sgn))
    ELSE F64Norm(a.sgn * b.sgn, a.n * b.n, a.d * b.d)

F64Div(a, b) ==
    IF IsNaN(a) \/ IsNaN(b) THEN F64NaN
    ELSE IF IsInf(a) THEN (IF IsInf(b) THEN F64NaN ELSE F64Inf(a.sgn * b.sgn))
    ELSE IF IsInf(b) THEN [sgn |-> a.sgn * b.sgn, n |-> 0, d |-> 1]
    ELSE IF IsZero(b) THEN (IF IsZero(a) THEN F64NaN ELSE F64Inf(a.sgn * b.sgn))
    ELSE F64Norm(a.sgn * b.sgn, a.n * b.d, a.d * b.n)

F64Eq(a, b) ==
    /\ ~IsNaN(a)
    /\ ~IsNaN(b)
    /\ \/ a = b
       \/ IsZero(a) /\ IsZero(b)

F64Lt(a, b) ==
    /\ ~IsNaN(a)
    /\ ~IsNaN(b)
    /\ ~F64Eq(a, b)
    /\ IF IsInf(a) THEN a.sgn = -1
       ELSE IF IsInf(b) THEN b.sgn = 1
       ELSE F64Num(a, b) < F64Num(b, a)

F64Gt(a, b) == F64Lt(b, a)

F64Le(a, b) == F64Lt(a, b) \/ F64Eq(a, b)

F64Ge(a, b) == F64Lt(b, a) \/ F64Eq(a, b)


(***************************************************************************)
(* core.rs: tokens                                                         *)
(***************************************************************************)
NoStr == <<>>

NoNum == F64(0)

\* Token::new.  A TokenType is its variant name; the payload of Str(String)
\* is str and the payload of Number(f64) is num.
Token(token_type, str, num, lexeme, line) ==
    [token_type |-> token_type, str |-> str, num |-> num, lexeme |-> lexeme, line |-> line]

\* Token::empty with the token type replaced, as RuntimeError::empty builds it.
EmptyToken(token_type, str, num) == Token(token_type, str, num, <<>>, 0)

(***************************************************************************)
(* error.rs: diagnostics.  Each report is one line written to stderr; the  *)
(* location is kept as the text pieces it is concatenated from.            *)
(***************************************************************************)
report(err, line, location, message) ==
    Append(err, [line |-> line, location |-> location, message |-> message])

error(err, line, message) == report(err, line, <<>>, message)

token_error(err, token, message) ==
    IF token.token_type = "EOF"
    THEN report(err, token.line, <<" at end">>, message)
    ELSE report(err, token.line, <<" at '">> \o token.lexeme \o <<"'">>, message)

(***************************************************************************)
(* scanner.rs                                                              *)
(*                                                                         *)
(* A scanner state s is the record of the Scanner's mutable fields:        *)
(* reader (how many characters the Peekable<Chars> has yielded), tokens,   *)
(* start, current, line; plus err, the diagnostics written so far.         *)
(***************************************************************************)
Digits == {"0", "1", "2", "3", "4", "5", "6", "7", "8", "9"}

Letters ==
    {"a", "b", "c", "d", "e", "f", "g", "h", "i", "j", "k", "l", "m",
     "n", "o", "p", "q", "r", "s", "t", "u", "v", "w", "x", "y", "z",
     "A", "B", "C", "D", "E", "F", "G", "H", "I", "J", "K", "L", "M",
     "N", "O", "P", "Q", "R", "S", "T", "U", "V", "W", "X", "Y", "Z"}

DigitValue(c) ==
    CASE c = "0" -> 0 [] c = "1" -> 1 [] c = "2" -> 2 [] c = "3" -> 3 [] c = "4" -> 4
      [] c = "5" -> 5 [] c = "6" -> 6 [] c = "7" -> 7 [] c = "8" -> 8 [] c = "9" -> 9

is_digit(c) == c \in Digits

is_alphabetic(c) == c \in Letters

is_alphanumeric(c) == c \in Letters \cup Digits

\* Scanner::new
NewScanner ==
    [reader |-> 0, tokens |-> <<>>, start |-> 0, current |-> 0, line |-> 1, err |-> <<>>]

\* self.reader.peek()
ScanPeekIsSome(src, s) == s.reader < Len(src)

ScanPeek(src, s) == src[s.reader + 1]

\* Scanner::advance: current is incremented even when the reader is exhausted.
ScanAdvance(src, s) ==
    [s EXCEPT !.current = s.current + 1, !.reader = Min(s.reader + 1, Len(src))]

\* Scanner::check_next_symbol, the closure f given as the set of characters
\* it accepts: the answer ("None", "Some(true)", "Some(false)") and the
\* scanner after it.
check_next_symbol(src, s, f) ==
    IF ScanPeekIsSome(src, s)
    THEN IF ScanPeek(src, s) \in f
         THEN [ans |-> "Some(true)", s |-> ScanAdvance(src, s)]
         ELSE [ans |-> "Some(false)", s |-> s]
    ELSE [ans |-> "None", s |-> s]

\* Scanner::add_token
add_token(src, s, token_type, str, num) ==
    LET text == IF token_type = "Str"
                THEN SkipTake(src, s.start + 1, (s.current - 1) - (s.start + 1))
                ELSE SkipTake(src, s.start, s.current - s.start)
    IN  [s EXCEPT !.tokens = Append(s.tokens, Token(token_type, str, num, text, s.line))]

\* Scanner::add_next_token
add_next_token(src, s, expected, token_type1, token_type2) ==
    LET r == check_next_symbol(src, s, {expected})
    IN  IF r.ans = "Some(true)"
        THEN add_token(src, r.s, token_type1, NoStr, NoNum)
        ELSE add_token(src, r.s, token_type2, NoStr, NoNum)

\* Scanner::make_string: [some, str, s]
RECURSIVE make_string(_, _)
make_string(src, s) ==
    LET q == check_next_symbol(src, s, {"\""})
    IN  CASE q.ans = "None" ->
               [some |-> FALSE, str |-> NoStr,
                s |-> [q.s EXCEPT !.err = error(q.s.err, q.s.line, "Unterminated string.")]]
          [] q.ans = "Some(false)" ->
               LET n  == check_next_symbol(src, q.s, {"\n"})
                   s1 == IF n.ans = "Some(true)"
                         THEN [n.s EXCEPT !.line = n.s.line + 1]
                         ELSE n.s
               IN  make_string(src, ScanAdvance(src, s1))
          [] q.ans = "Some(true)" ->
               [some |-> TRUE,
                str |-> SkipTake(src, q.s.start + 1, (q.s.current - 1) - (q.s.start + 1)),
                s |-> q.s]

\* while let Some(true) = self.check_next_symbol(|c| c in chars) {}
RECURSIVE ConsumeWhile(_, _, _)
ConsumeWhile(src, s, chars) ==
    LET r == check_next_symbol(src, s, chars)
    IN  IF r.ans = "Some(true)" THEN ConsumeWhile(src, r.s, chars) ELSE r.s

\* str::parse::<f64> on text of the form digits or digits.digits
RECURSIVE DigitsValue(_)
DigitsValue(text) ==
    IF text = <<>> THEN 0
    ELSE 10 * DigitsValue(SubSeq(text, 1, Len(text) - 1)) + DigitValue(text[Len(text)])

ParseF64(text) ==
    LET dots == {i \in 1..Len(text) : text[i] = "."}
    IN  IF dots = {}
        THEN F64Norm(1, DigitsValue(text), 1)
        ELSE LET dot  == CHOOSE i \in dots : TRUE
                 int  == SubSeq(text, 1, dot - 1)
                 frac == SubSeq(text, dot + 1, Len(text))
             IN  F64Norm(1, DigitsValue(int \o frac), Pow10(Len(frac)))

\* make_number returning the digits before a trailing '.' as a Number after
\* reporting the error.
make_number_value_despite_error(src, s) ==
    LET s1  == ConsumeWhile(src, s, Digits)
        dot == check_next_symbol(src, s1, {"."})
        dig == check_next_symbol(src, dot.s, Digits)
        bad == dot.ans = "Some(true)" /\ dig.ans # "Some(true)"
        s2  == IF ~ScanPeekIsSome(src, s1) THEN s1
               ELSE IF dot.ans = "Some(true)" THEN ConsumeWhile(src, dig.s, Digits)
               ELSE dot.s
    IN  IF ScanPeekIsSome(src, s1) /\ bad
        THEN [some |-> TRUE,
              num |-> ParseF64(SkipTake(src, s1.start, s1.current - s1.start)),
              s |-> [dig.s EXCEPT !.err =
                        error(dig.s.err, dig.s.line, "Number cannot end with '.' operator")]]
        ELSE [some |-> TRUE,
              num |-> ParseF64(SkipTake(src, s2.start, s2.current - s2.start)),
              s |-> s2]

\* Scanner::make_number: [some, num, s]
make_number(src, s) ==
    LET s1  == ConsumeWhile(src, s, Digits)
        dot == check_next_symbol(src, s1, {"."})
        dig == check_next_symbol(src, dot.s, Digits)
        bad == dot.ans = "Some(true)" /\ dig.ans # "Some(true)"
        s2  == IF ~ScanPeekIsSome(src, s1) THEN s1
               ELSE IF dot.ans = "Some(true)" THEN ConsumeWhile(src, dig.s, Digits)
               ELSE dot.s
    IN  IF ScanPeekIsSome(src, s1) /\ bad
        THEN [some |-> FALSE, num |-> NoNum,
              s |-> [dig.s EXCEPT !.err =
                        error(dig.s.err, dig.s.line, "Number cannot end with '.' operator")]]
        ELSE [some |-> TRUE,
              num |-> ParseF64(SkipTake(src, s2.start, s2.current - s2.start)),
              s |-> s2]

Keyword(text) ==
    CASE text = <<"a", "n", "d">> -> "And"
      [] text = <<"c", "l", "a", "s", "s">> -> "Class"
      [] text = <<"e", "l", "s", "e">> -> "Else"
      [] text = <<"f", "a", "l", "s", "e">> -> "False"
      [] text = <<"f", "o", "r">> -> "For"
      [] text = <<"f", "u", "n">> -> "Fun"
      [] text = <<"i", "f">> -> "If"
      [] text = <<"n", "i", "l">> -> "Nil"
      [] text = <<"o", "r">> -> "Or"
      [] text = <<"p", "r", "i", "n", "t">> -> "Print"
      [] text = <<"r", "e", "t", "u", "r", "n">> -> "Return"
      [] text = <<"s", "u", "p", "e", "r">> -> "Super"
      [] text = <<"t", "h", "i", "s">> -> "This"
      [] text = <<"t", "r", "u", "e">> -> "True"
      [] text = <<"v", "a", "r">> -> "Var"
      [] text = <<"w", "h", "i", "l", "e">> -> "While"
      [] OTHER -> "Identifier"

\* Scanner::make_identifier: [token_type, s]
make_identifier(src, s) ==
    LET s1 == ConsumeWhile(src, s, {c \in Letters \cup Digits \cup {"_"} : is_alphanumeric(c) \/ c = "_"})
    IN  [token_type |-> Keyword(SkipTake(src, s1.start, s1.current - s1.start)), s |-> s1]

\* The '/' arm of scan_token's match, after the '/' has been consumed.
RECURSIVE SkipComment(_, _)
SkipComment(src, s) ==
    LET r == check_next_symbol(src, s, {"\n"})
    IN  IF r.ans = "Some(false)" THEN SkipComment(src, ScanAdvance(src, r.s)) ELSE r.s

scan_slash(src, s) ==
    LET r == check_next_symbol(src, s, {"/"})
    IN  CASE r.ans = "None" -> [r.s EXCEPT !.err = error(r.s.err, r.s.line, "Unexpected EOF")]
          [] r.ans = "Some(false)" -> add_token(src, r.s, "Slash", NoStr, NoNum)
          [] r.ans = "Some(true)" ->
               LET s1 == SkipComment(src, r.s) IN [s1 EXCEPT !.line = s1.line + 1]

\* Scanner::scan_token; called only while the reader has a character left.
scan_token(src, s0) ==
    LET c == ScanPeek(src, s0)
        s == ScanAdvance(src, s0)
    IN  CASE c = "(" -> add_token(src, s, "LeftParen", NoStr, NoNum)
          [] c = ")" -> add_token(src, s, "RightParen", NoStr, NoNum)
          [] c = "{" -> add_token(src, s, "LeftBrace", NoStr, NoNum)
          [] c = "}" -> add_token(src, s, "RightBrace", NoStr, NoNum)
          [] c = "," -> add_token(src, s, "Comma", NoStr, NoNum)
          [] c = "." -> add_token(src, s, "Dot", NoStr, NoNum)
          [] c = "-" -> add_token(src, s, "Minus", NoStr, NoNum)
          [] c = "+" -> add_token(src, s, "Plus", NoStr, NoNum)
          [] c = ";" -> add_token(src, s, "SemiColon", NoStr, NoNum)
          [] c = "*" -> add_token(src, s, "Star", NoStr, NoNum)
          [] c = "!" -> add_next_token(src, s, "=", "BangEqual", "Bang")
          [] c = "=" -> add_next_token(src, s, "=", "EqualEqual", "Equal")
          [] c = "<" -> add_next_token(src, s, "=", "LessEqual", "Less")
          [] c = ">" -> add_next_token(src, s, "=", "GreaterEqual", "Greater")
          [] c = "/" -> scan_slash(src, s)
          [] c \in {" ", "\r", "\t"} -> s
          [] c = "\n" -> [s EXCEPT !.line = s.line + 1]
          [] c = "\"" ->
               LET m == make_string(src, s)
               IN  IF m.some THEN add_token(src, m.s, "Str", m.str, NoNum) ELSE m.s
          [] OTHER ->
               IF is_digit(c)
               THEN LET m == make_number(src, s)
                    IN  IF m.some THEN add_token(src, m.s, "Number", NoStr, m.num) ELSE m.s
               ELSE IF is_alphabetic(c) \/ c = "_"
               THEN LET m == make_identifier(src, s)
                    IN  add_token(src, m.s, m.token_type, NoStr, NoNum)
               ELSE [s EXCEPT !.err = error(s.err, s.line, "Unexpected character.")]


(***************************************************************************)
(* core.rs: expression nodes (the expr! structs and their new)             *)
(***************************************************************************)
\* A TokenType value: the variant and its payload.
TokenType(token_type, str, num) == [token_type |-> token_type, str |-> str, num |-> num]

TokenTypeOf(token) == TokenType(token.token_type, token.str, token.num)

Binary(left, op, right) == [node |-> "Binary", left |-> left, op |-> op, right |-> right]

Grouping(expression) == [node |-> "Grouping", expression |-> expression]

Literal(value) == [node |-> "Literal", value |-> value]

Unary(op, right) == [node |-> "Unary", op |-> op, right |-> right]

\* The expr field of a ParseResult that is an Err.
NoExpr == [node |-> "None"]

(***************************************************************************)
(* parser.rs                                                               *)
(*                                                                         *)
(* A parser state p is the record of the Parser's mutable fields: reader   *)
(* (how many tokens the Peekable<Iter> has yielded) and current; plus err, *)
(* the diagnostics written so far.  A ParseResult is [ok, expr, p].        *)
(***************************************************************************)
ParseOk(e, p) == [ok |-> TRUE, expr |-> e, p |-> p]

ParseErr(p) == [ok |-> FALSE, expr |-> NoExpr, p |-> p]

\* self.reader.peek()
ParsePeekIsSome(toks, p) == p.reader < Len(toks)

ParsePeek(toks, p) == toks[p.reader + 1]

\* Parser::advance
ParseAdvance(toks, p) ==
    [p EXCEPT !.current = p.current + 1, !.reader = Min(p.reader + 1, Len(toks))]

\* Parser::error
ParserError(p, token, message) == [p EXCEPT !.err = token_error(p.err, token, message)]

\* Parser::check_next_token with the closure |token| token.token_type in types:
\* [some, token, p]
check_next_token(toks, p, types) ==
    IF ParsePeekIsSome(toks, p) /\ ParsePeek(toks, p).token_type \in types
    THEN [some |-> TRUE, token |-> ParsePeek(toks, p), p |-> ParseAdvance(toks, p)]
    ELSE [some |-> FALSE, token |-> EmptyToken("EOF", NoStr, NoNum), p |-> p]

\* check_unexpected_expr taking only literals and "(" for the start of an
\* expression: an identifier after an operand passes.
check_unexpected_expr_without_identifier(toks, p) ==
    LET c == check_next_token(toks, p,
                 {"True", "False", "Nil", "Number", "Str", "LeftParen"})
    IN  IF c.some
        THEN [ok |-> FALSE, p |-> ParserError(c.p, c.token, "Unexpected Expression")]
        ELSE [ok |-> TRUE, p |-> c.p]

\* Parser::check_unexpected_expr: [ok, p]
check_unexpected_expr(toks, p) ==
    LET c == check_next_token(toks, p,
                 {"True", "False", "Nil", "Number", "Str", "LeftParen", "Identifier"})
    IN  IF c.some
        THEN [ok |-> FALSE, p |-> ParserError(c.p, c.token, "Unexpected Expression")]
        ELSE [ok |-> TRUE, p |-> c.p]

\* Parser::consume: [ok, p]
consume(toks, p, token_type, message) ==
    IF ParsePeekIsSome(toks, p)
    THEN IF ParsePeek(toks, p).token_type = token_type
         THEN [ok |-> TRUE, p |-> ParseAdvance(toks, p)]
         ELSE [ok |-> FALSE, p |-> ParserError(p, ParsePeek(toks, p), message)]
    ELSE [ok |-> FALSE, p |-> p]

\* The tail shared by equality, comparison, addition and multiplication:
\* self.check_unexpected_expr()?; Ok(expr)
AfterLevel(toks, r) ==
    IF ~r.ok THEN r
    ELSE LET c == check_unexpected_expr(toks, r.p)
         IN  IF c.ok THEN ParseOk(r.expr, c.p) ELSE ParseErr(c.p)

\* let right_expr = <operand>?; expr = Box::new(Binary::new(expr, token, right_expr))
FoldBinary(e, token, r) == IF r.ok THEN ParseOk(Binary(e, token, r.expr), r.p) ELSE r

\* let right_expr = self.unary()?; return Ok(Box::new(Unary::new(token, right_expr)))
FoldUnary(token, r) == IF r.ok THEN ParseOk(Unary(token, r.expr), r.p) ELSE r

\* let expr = self.expression()?; self.consume(RightParen, ...)?;
\* return Ok(Box::new(Grouping::new(expr)))
FoldGrouping(toks, e) ==
    IF ~e.ok THEN e
    ELSE LET c == consume(toks, e.p, "RightParen", "Expect ')' after expression.")
         IN  IF c.ok THEN ParseOk(Grouping(e.expr), c.p) ELSE ParseErr(c.p)

EqualityOps == {"BangEqual", "EqualEqual"}

ComparisonOps == {"Greater", "GreaterEqual", "Less", "LessEqual"}

AdditionOps == {"Minus", "Plus"}

MultiplicationOps == {"Slash", "Star"}

UnaryOps == {"Bang", "Minus"}

RECURSIVE expression(_, _)
RECURSIVE equality(_, _)
RECURSIVE equality_loop(_, _)
RECURSIVE comparison(_, _)
RECURSIVE comparison_loop(_, _)
RECURSIVE addition(_, _)
RECURSIVE addition_loop(_, _)
RECURSIVE multiplication(_, _)
RECURSIVE multiplication_loop(_, _)
RECURSIVE unary(_, _)
RECURSIVE primary(_, _)

\* Parser::primary
primary(toks, p) ==
    LET lit == check_next_token(toks, p, {"True", "False", "Nil", "Number", "Str"})
        par == check_next_token(toks, p, {"LeftParen"})
    IN  IF lit.some THEN ParseOk(Literal(TokenTypeOf(lit.token)), lit.p)
        ELSE IF par.some THEN FoldGrouping(toks, expression(toks, par.p))
        ELSE IF ParsePeekIsSome(toks, p)
        THEN ParseErr(ParserError(p, ParsePeek(toks, p), "Expected expression."))
        ELSE ParseErr(p)

\* Parser::unary
unary(toks, p) ==
    LET c == check_next_token(toks, p, UnaryOps)
    IN  IF c.some THEN FoldUnary(c.token, unary(toks, c.p)) ELSE primary(toks, p)

\* The while loop of Parser::multiplication; l is the result so far (the first
\* operand, or the last fold), an Err ending the function as ? does.
multiplication_loop(toks, l) ==
    IF ~l.ok THEN l
    ELSE LET c == check_next_token(toks, l.p, MultiplicationOps)
         IN  IF c.some
             THEN multiplication_loop(toks, FoldBinary(l.expr, c.token, unary(toks, c.p)))
             ELSE l

\* Parser::multiplication
multiplication(toks, p) == AfterLevel(toks, multiplication_loop(toks, unary(toks, p)))

\* addition's loop with its right operand parsed by addition itself, which
\* groups a chain of + and - from the right.
addition_loop_right_operand_addition(toks, l) ==
    IF ~l.ok THEN l
    ELSE LET c == check_next_token(toks, l.p, AdditionOps)
         IN  IF c.some
             THEN addition_loop(toks, FoldBinary(l.expr, c.token, addition(toks, c.p)))
             ELSE l

\* The while loop of Parser::addition
addition_loop(toks, l) ==
    IF ~l.ok THEN l
    ELSE LET c == check_next_token(toks, l.p, AdditionOps)
         IN  IF c.some
             THEN addition_loop(toks, FoldBinary(l.expr, c.token, multiplication(toks, c.p)))
             ELSE l

\* Parser::addition
addition(toks, p) == AfterLevel(toks, addition_loop(toks, multiplication(toks, p)))

\* The while loop of Parser::comparison
comparison_loop(toks, l) ==
    IF ~l.ok THEN l
    ELSE LET c == check_next_token(toks, l.p, ComparisonOps)
         IN  IF c.some
             THEN comparison_loop(toks, FoldBinary(l.expr, c.token, addition(toks, c.p)))
             ELSE l

\* Parser::comparison
comparison(toks, p) == AfterLevel(toks, comparison_loop(toks, addition(toks, p)))

\* The while loop of Parser::equality
equality_loop(toks, l) ==
    IF ~l.ok THEN l
    ELSE LET c == check_next_token(toks, l.p, EqualityOps)
         IN  IF c.some
             THEN equality_loop(toks, FoldBinary(l.expr, c.token, comparison(toks, c.p)))
             ELSE l

\* Parser::equality
equality(toks, p) == AfterLevel(toks, equality_loop(toks, comparison(toks, p)))

\* Parser::expression
expression(toks, p) == equality(toks, p)

\* Parser::parse
parse(toks, p) == expression(toks, p)


(***************************************************************************)
(* core.rs: runtime values and interpret                                   *)
(*                                                                         *)
(* A LoxObject is a Box<dyn Any>.  The model keeps the concrete type that  *)
(* the box erases: ty is the type of the innermost payload ("f64",         *)
(* "String", "bool", "Option<bool>"), and boxes lists, outermost first,    *)
(* the boxes that were themselves boxed as the payload ("Box<dyn Any>",    *)
(* "Box<bool>").  Exactly one of num, str, b, opt is the payload.          *)
(* A RuntimeResult is [ok, val, token], token being RuntimeError.0.        *)
(***************************************************************************)
NoObject ==
    [ty |-> "none", num |-> NoNum, str |-> NoStr, b |-> FALSE, opt |-> "None", boxes |-> <<>>]

\* Box::new(x) for x : f64, String, bool, Option<bool>
BoxF64(x) == [NoObject EXCEPT !.ty = "f64", !.num = x]

BoxString(s) == [NoObject EXCEPT !.ty = "String", !.str = s]

BoxBool(b) == [NoObject EXCEPT !.ty = "bool", !.b = b]

BoxOption(o) == [NoObject EXCEPT !.ty = "Option<bool>", !.opt = o]

\* Box::new(object) for an object that is itself a box of type box_type,
\* coerced to Box<dyn Any>.
BoxBox(object, box_type) == [object EXCEPT !.boxes = <<box_type>> \o object.boxes]

\* The concrete type behind the dyn Any (what Any::type_id answers).
TypeIdOf(object) == IF object.boxes = <<>> THEN object.ty ELSE object.boxes[1]

\* <dyn Any>::downcast_ref::<T>().is_some() and Box<dyn Any>::downcast::<T>().is_ok()
downcast_is_some(object, T) == TypeIdOf(object) = T

NoToken == EmptyToken("EOF", NoStr, NoNum)

RuntimeOk(object) == [ok |-> TRUE, val |-> object, token |-> NoToken]

RuntimeErr(token) == [ok |-> FALSE, val |-> NoObject, token |-> token]

\* RuntimeError::empty
RuntimeErrorEmpty(value) == RuntimeErr(EmptyToken(value.token_type, value.str, value.num))

\* Literal::interpret
InterpretLiteral(value) ==
    IF value.token_type = "Number" THEN RuntimeOk(BoxF64(value.num))
    ELSE IF value.token_type = "Str" THEN RuntimeOk(BoxString(value.str))
    ELSE IF value.token_type \in {"True", "False", "Nil"}
    THEN RuntimeOk(BoxOption(IF value.token_type = "True" THEN "Some(true)"
                             ELSE IF value.token_type = "False" THEN "Some(false)"
                             ELSE "None"))
    ELSE RuntimeErrorEmpty(value)

\* Grouping::interpret, given the operand's result
InterpretGrouping(inner) ==
    IF ~inner.ok THEN inner ELSE RuntimeOk(BoxBox(inner.val, "Box<dyn Any>"))

\* Unary::interpret, given the operand's result
InterpretUnary(op, right) ==
    IF ~right.ok THEN right
    ELSE IF op.token_type = "Minus"
    THEN IF downcast_is_some(right.val, "f64")
         THEN RuntimeOk(BoxF64(F64Mul(F64(-1), right.val.num)))
         ELSE RuntimeErr(op)
    ELSE IF op.token_type = "Bang"
    THEN IF downcast_is_some(right.val, "bool")
         THEN RuntimeOk(BoxBox(right.val, "Box<bool>"))
         ELSE RuntimeErr(op)
    ELSE RuntimeErr(op)

\* The arithmetic arm rejecting its operands only when neither is an f64:
\* a missing Number then reads as 0.
InterpretArithmetic_reject_when_both_none(op, left_object, right_object) ==
    IF /\ op.token_type = "Plus"
       /\ downcast_is_some(left_object, "String")
       /\ downcast_is_some(right_object, "String")
    THEN RuntimeOk(BoxString(left_object.str \o right_object.str))
    ELSE IF ~downcast_is_some(left_object, "f64") /\ ~downcast_is_some(right_object, "f64")
    THEN RuntimeErr(op)
    ELSE CASE op.token_type = "Plus" -> RuntimeOk(BoxF64(F64Add(left_object.num, right_object.num)))
           [] op.token_type = "Minus" -> RuntimeOk(BoxF64(F64Sub(left_object.num, right_object.num)))
           [] op.token_type = "Slash" -> RuntimeOk(BoxF64(F64Div(left_object.num, right_object.num)))
           [] op.token_type = "Star" -> RuntimeOk(BoxF64(F64Mul(left_object.num, right_object.num)))
           [] op.token_type = "Greater" -> RuntimeOk(BoxBool(F64Gt(left_object.num, right_object.num)))
           [] op.token_type = "GreaterEqual" -> RuntimeOk(BoxBool(F64Ge(left_object.num, right_object.num)))
           [] op.token_type = "Less" -> RuntimeOk(BoxBool(F64Lt(left_object.num, right_object.num)))
           [] op.token_type = "LessEqual" -> RuntimeOk(BoxBool(F64Le(left_object.num, right_object.num)))
           [] OTHER -> RuntimeErr(op)

\* The arithmetic and relational arm of Binary::interpret
InterpretArithmetic(op, left_object, right_object) ==
    IF /\ op.token_type = "Plus"
       /\ downcast_is_some(left_object, "String")
       /\ downcast_is_some(right_object, "String")
    THEN RuntimeOk(BoxString(left_object.str \o right_object.str))
    ELSE IF ~downcast_is_some(left_object, "f64") \/ ~downcast_is_some(right_object, "f64")
    THEN RuntimeErr(op)
    ELSE LET lvalue == left_object.num
             rvalue == right_object.num
         IN  CASE op.token_type = "Plus" -> RuntimeOk(BoxF64(F64Add(lvalue, rvalue)))
               [] op.token_type = "Minus" -> RuntimeOk(BoxF64(F64Sub(lvalue, rvalue)))
               [] op.token_type = "Slash" -> RuntimeOk(BoxF64(F64Div(lvalue, rvalue)))
               [] op.token_type = "Star" -> RuntimeOk(BoxF64(F64Mul(lvalue, rvalue)))
               [] op.token_type = "Greater" -> RuntimeOk(BoxBool(F64Gt(lvalue, rvalue)))
               [] op.token_type = "GreaterEqual" -> RuntimeOk(BoxBool(F64Ge(lvalue, rvalue)))
               [] op.token_type = "Less" -> RuntimeOk(BoxBool(F64Lt(lvalue, rvalue)))
               [] op.token_type = "LessEqual" -> RuntimeOk(BoxBool(F64Le(lvalue, rvalue)))
               [] OTHER -> RuntimeErr(op)

\* The equality arm of Binary::interpret
InterpretEquality(op, left_object, right_object) ==
    LET ans0 == FALSE
        ans1 == IF /\ downcast_is_some(left_object, "Option<bool>")
                   /\ downcast_is_some(right_object, "Option<bool>")
                THEN (IF left_object.opt = right_object.opt THEN TRUE ELSE ans0)
                ELSE ans0
        ans2 == IF /\ downcast_is_some(left_object, "String")
                   /\ downcast_is_some(right_object, "String")
                THEN left_object.str = right_object.str
                ELSE ans1
        ans  == IF /\ downcast_is_some(left_object, "f64")
                   /\ downcast_is_some(right_object, "f64")
                THEN F64Eq(left_object.num, right_object.num)
                ELSE ans2
    IN  IF op.token_type = "EqualEqual" THEN RuntimeOk(BoxBool(ans)) ELSE RuntimeOk(BoxBool(~ans))

\* Binary::interpret, given the operands' results
InterpretBinary(left, op, right) ==
    IF ~left.ok THEN left
    ELSE IF ~right.ok THEN right
    ELSE IF op.token_type \in {"Plus", "Minus", "Slash", "Star",
                               "Greater", "GreaterEqual", "Less", "LessEqual"}
    THEN InterpretArithmetic(op, left.val, right.val)
    ELSE IF op.token_type \in {"EqualEqual", "BangEqual"}
    THEN InterpretEquality(op, left.val, right.val)
    ELSE RuntimeErr(op)

\* Expr::interpret.  A result carries, besides what the code returns, calls:
\* the nodes whose interpret has been called, in the order the calls return.
RECURSIVE interpret(_)

\* The result r of node e, whose operands made the calls in calls.
Called(e, calls, r) ==
    [ok |-> r.ok, val |-> r.val, token |-> r.token, calls |-> Append(calls, e)]

\* Grouping::interpret and Unary::interpret after the operand's interpret()
AfterOperand(e, operand) ==
    Called(e, operand.calls,
           IF e.node = "Grouping" THEN InterpretGrouping(operand)
           ELSE InterpretUnary(e.op, operand))

\* Binary::interpret after self.right.interpret()
AfterRight(e, left, right) ==
    Called(e, left.calls \o right.calls, InterpretBinary(left, e.op, right))

\* Binary::interpret evaluating its right operand whatever the left one
\* returned, and returning the right operand's failure first.
AfterLeft_right_always_evaluated(e, left) ==
    Called(e, left.calls \o interpret(e.right).calls,
           IF ~interpret(e.right).ok THEN interpret(e.right)
           ELSE InterpretBinary(left, e.op, interpret(e.right)))

\* Binary::interpret after self.left.interpret(): the ? returns a failure at
\* once, before self.right.interpret() is called.
AfterLeft(e, left) ==
    IF ~left.ok THEN Called(e, left.calls, left)
    ELSE AfterRight(e, left, interpret(e.right))

interpret(e) ==
    CASE e.node = "Literal" -> Called(e, <<>>, InterpretLiteral(e.value))
      [] e.node = "Grouping" -> AfterOperand(e, interpret(e.expression))
      [] e.node = "Unary" -> AfterOperand(e, interpret(e.right))
      [] e.node = "Binary" -> AfterLeft(e, interpret(e.left))


(***************************************************************************)
(* core.rs: the Display implementations                                    *)
(***************************************************************************)
DigitChar(d) ==
    CASE d = 0 -> "0" [] d = 1 -> "1" [] d = 2 -> "2" [] d = 3 -> "3" [] d = 4 -> "4"
      [] d = 5 -> "5" [] d = 6 -> "6" [] d = 7 -> "7" [] d = 8 -> "8" [] d = 9 -> "9"

\* The decimal digits of a natural number.
RECURSIVE NatText(_)
NatText(n) == IF n < 10 THEN <<DigitChar(n)>> ELSE NatText(n \div 10) \o <<DigitChar(n % 10)>>

\* The decimal digits of num / den after the point, for num < den and a
\* finite expansion.
RECURSIVE FracText(_, _)
FracText(num, den) ==
    IF num = 0 THEN <<>>
    ELSE <<DigitChar((10 * num) \div den)>> \o FracText((10 * num) % den, den)

\* "{}" of an f64
DisplayF64(x) ==
    IF IsNaN(x) THEN <<"N", "a", "N">>
    ELSE (IF x.sgn < 0 THEN <<"-">> ELSE <<>>) \o
         (IF IsInf(x) THEN <<"i", "n", "f">>
          ELSE NatText(x.n \div x.d) \o
               (IF x.n % x.d = 0 THEN <<>> ELSE <<".">> \o FracText(x.n % x.d, x.d)))

\* Display for Token
DisplayToken(token) == token.lexeme

\* Display for Literal
DisplayLiteral(value) ==
    IF value.token_type = "Str" THEN value.str
    ELSE IF value.token_type = "Number" THEN DisplayF64(value.num)
    ELSE <<>>

\* Display for Binary, given the texts of its operands
DisplayBinary(op, left, right) ==
    <<"(">> \o DisplayToken(op) \o <<" ">> \o left \o <<" ">> \o right \o <<")">>

\* Display for Grouping, given the text of its expression
DisplayGrouping(inner) ==
    <<"(", "g", "r", "o", "u", "p", " ">> \o inner \o <<")">>

\* Display for Unary, given the text of its operand
DisplayUnary(op, right) == <<"(">> \o DisplayToken(op) \o <<" ">> \o right \o <<")">>

\* Display for dyn Expr
RECURSIVE Display(_)
Display(e) ==
    CASE e.node = "Literal" -> DisplayLiteral(e.value)
      [] e.node = "Grouping" -> DisplayGrouping(Display(e.expression))
      [] e.node = "Unary" -> DisplayUnary(e.op, Display(e.right))
      [] e.node = "Binary" -> DisplayBinary(e.op, Display(e.left), Display(e.right))

(***************************************************************************)
(* main.rs: run_file, one action per call it makes                         *)
(***************************************************************************)
ScannerFields(s) ==
    [reader |-> s.reader, tokens |-> s.tokens, start |-> s.start,
     current |-> s.current, line |-> s.line]

ScannerState(sc, err) ==
    [reader |-> sc.reader, tokens |-> sc.tokens, start |-> sc.start,
     current |-> sc.current, line |-> sc.line, err |-> err]

NotParsed == [state |-> "none", expr |-> NoExpr]

NotInterpreted == [state |-> "none", val |-> NoObject, token |-> NoToken]

IdleParser == [tokens |-> <<>>, reader |-> 0, current |-> 0]

\* One iteration of the loop of Scanner::scan_tokens.
scan_tokens_step(src, s) == scan_token(src, [s EXCEPT !.start = s.current])

\* Scanner::scan_tokens
RECURSIVE scan_tokens(_, _)
scan_tokens(src, s) ==
    IF ScanPeekIsSome(src, s) THEN scan_tokens(src, scan_tokens_step(src, s)) ELSE s

ScanToken ==
    /\ pc = "scan"
    /\ ScanPeekIsSome(source, scanner)
    /\ LET s == scan_tokens_step(source, ScannerState(scanner, stderr))
       IN  /\ scanner' = ScannerFields(s)
           /\ stderr' = s.err
    /\ UNCHANGED <<source, parser, parsed, result, pc, printed>>

\* scan_tokens returns when the reader is exhausted.
ScanDone ==
    /\ pc = "scan"
    /\ ~ScanPeekIsSome(source, scanner)
    /\ pc' = "new_parser"
    /\ UNCHANGED <<source, scanner, parser, parsed, result, stderr, printed>>

\* Parser::new(scanner.get_tokens())
ParserNew ==
    /\ pc = "new_parser"
    /\ parser' = [tokens |-> scanner.tokens, reader |-> 0, current |-> 0]
    /\ pc' = "parse"
    /\ UNCHANGED <<source, scanner, parsed, result, stderr, printed>>

\* parser.parse()
Parse ==
    /\ pc = "parse"
    /\ LET r == parse(parser.tokens,
                      [reader |-> parser.reader, current |-> parser.current, err |-> stderr])
       IN  /\ parser' = [parser EXCEPT !.reader = r.p.reader, !.current = r.p.current]
           /\ parsed' = [state |-> IF r.ok THEN "Ok" ELSE "Err", expr |-> r.expr]
           /\ stderr' = r.p.err
           /\ pc' = IF r.ok THEN "interpret" ELSE "done"
    /\ UNCHANGED <<source, scanner, result, printed>>

\* expr.interpret()
Interpret ==
    /\ pc = "interpret"
    /\ LET r == interpret(parsed.expr)
       IN  result' = [state |-> IF r.ok THEN "Ok" ELSE "Err", val |-> r.val, token |-> r.token]
    /\ pc' = "done"
    /\ UNCHANGED <<source, scanner, parser, parsed, stderr, printed>>

(***************************************************************************)
(* Spec: run_file on every source text over SrcChars of at most MaxSrcLen  *)
(* characters.                                                             *)
(***************************************************************************)
SrcChars == {"\"", "\n", "/", "1", ".", "@", "a", "="}

\* Texts scanned besides those over SrcChars.
ScanExamples == {<<"1", " ", "@", " ", "2">>}

Init ==
    /\ \/ \E k \in 0..MaxSrcLen : source \in [1..k -> SrcChars]
       \/ source \in ScanExamples
    /\ scanner = ScannerFields(NewScanner)
    /\ parser = IdleParser
    /\ parsed = NotParsed
    /\ result = NotInterpreted
    /\ stderr = <<>>
    /\ pc = "scan"
    /\ printed = <<>>

Next == ScanToken \/ ScanDone \/ ParserNew \/ Parse \/ Interpret

Spec == Init /\ [][Next]_vars


(***************************************************************************)
(* Input texts built from lexemes.  A source is written as a sequence of   *)
(* lexemes separated by single spaces; run_file is then started at the     *)
(* point where scan_tokens has returned and Parser::new has been called.   *)
(***************************************************************************)
RECURSIVE Join(_)
Join(lexemes) ==
    IF lexemes = <<>> THEN <<>>
    ELSE IF Len(lexemes) = 1 THEN lexemes[1]
    ELSE lexemes[1] \o <<" ">> \o Join(Tail(lexemes))

\* The token the scanner makes of each lexeme used below, when a space
\* follows it.
AllLexemes ==
    {<<"1">>, <<"2">>, <<"3">>, <<"\"", "a", "\"">>, <<"\"", "b", "\"">>, <<"\"", "1", "\"">>,
     <<"t", "r", "u", "e">>, <<"f", "a", "l", "s", "e">>, <<"n", "i", "l">>,
     <<"a">>, <<"f", "o", "o">>, <<"(">>, <<")">>, <<";">>, <<"!">>, <<"-">>, <<"+">>,
     <<"/">>, <<"*">>, <<">">>, <<">", "=">>, <<"<">>, <<"<", "=">>, <<"=", "=">>,
     <<"!", "=">>}

TokenOfLexeme == [l \in AllLexemes |-> scan_tokens(l \o <<" ">>, NewScanner).tokens[1]]

\* run_file on Join(lexemes), up to and including Parser::new: every lexeme
\* has been scanned into its token, all on line 1, with no diagnostic.
\* (ScannedAsWritten below states that this is what scan_tokens produces.)
AtParse(lexemes) ==
    LET src  == Join(lexemes)
        toks == [i \in 1..Len(lexemes) |-> TokenOfLexeme[lexemes[i]]]
        last == IF lexemes = <<>> THEN 0 ELSE Len(lexemes[Len(lexemes)])
    IN  /\ source = src
        /\ scanner = [reader |-> Len(src), tokens |-> toks, start |-> Len(src) - last,
                      current |-> Len(src), line |-> 1]
        /\ parser = [tokens |-> toks, reader |-> 0, current |-> 0]
        /\ parsed = NotParsed
        /\ result = NotInterpreted
        /\ stderr = <<>>
        /\ pc = "parse"
        /\ printed = <<>>

\* The scanner's state in every state after scanning is the one scan_tokens
\* computes from the source.
ScannedAsWritten ==
    pc \in {"parse", "interpret", "done"} =>
        scanner = ScannerFields(scan_tokens(source, NewScanner))

(***************************************************************************)
(* The expressions the specification works through, as lexeme sequences.   *)
(***************************************************************************)
WellFormedExamples ==
    {<< <<"1">>, <<"-">>, <<"2">>, <<"-">>, <<"3">> >>,
     << <<"1">>, <<"+">>, <<"2">>, <<"*">>, <<"3">> >>,
     << <<"(">>, <<"1">>, <<"+">>, <<"2">>, <<")">>, <<"*">>, <<"3">> >>,
     << <<"\"", "a", "\"">>, <<"+">>, <<"\"", "b", "\"">> >>,
     << <<"1">>, <<"+">>, <<"\"", "a", "\"">> >>,
     << <<"1">>, <<"=", "=">>, <<"\"", "1", "\"">> >>,
     << <<"n", "i", "l">>, <<"=", "=">>, <<"n", "i", "l">> >>,
     << <<"t", "r", "u", "e">>, <<"!", "=">>, <<"f", "a", "l", "s", "e">> >>,
     << <<"1">>, <<"<">>, <<"2">>, <<"=", "=">>, <<"2">>, <<"<">>, <<"3">> >>,
     << <<"!">>, <<"t", "r", "u", "e">> >>}

MalformedExamples ==
    {<< <<"1">>, <<"+">> >>,
     << <<"1">>, <<"+">>, <<")">> >>,
     << <<"1">>, <<";">> >>,
     << <<"1">>, <<"!">>, <<"2">> >>,
     << <<"1">>, <<"2">> >>,
     << <<"(">>, <<"1">>, <<")">>, <<"2">> >>,
     << <<"1">>, <<"+">>, <<"2">>, <<"(">>, <<"3">>, <<")">> >>,
     << <<"1">>, <<"f", "o", "o">> >>}

(***************************************************************************)
(* ParseSpec: the parser (and the evaluation of what it returns) on every  *)
(* sequence of at most MaxTokens lexemes of ParseLexemes, and on the       *)
(* examples.                                                               *)
(***************************************************************************)
ParseLexemes ==
    {<<"1">>, <<"2">>, <<"-">>, <<"*">>, <<"<">>, <<"=", "=">>, <<"!">>, <<"(">>, <<")">>, <<"a">>}

ParseInit ==
    \/ \E k \in 0..MaxTokens : \E lexemes \in [1..k -> ParseLexemes] : AtParse(lexemes)
    \/ \E lexemes \in WellFormedExamples \cup MalformedExamples : AtParse(lexemes)

ParseNext == Parse \/ Interpret

ParseSpec == ParseInit /\ [][ParseNext]_vars

(***************************************************************************)
(* EvalSpec: the parser and the evaluator on the text of every expression  *)
(* of at most MaxNodes nodes over the literals and operators below, and on *)
(* the well-formed examples.                                               *)
(***************************************************************************)
LiteralLexemes ==
    {<<"1">>, <<"2">>, <<"\"", "a", "\"">>, <<"t", "r", "u", "e">>, <<"n", "i", "l">>}

UnaryLexemes == {<<"!">>, <<"-">>}

BinaryLexemes ==
    {<<"+">>, <<"-">>, <<"/">>, <<"*">>, <<">">>, <<">", "=">>, <<"<">>, <<"<", "=">>,
     <<"=", "=">>, <<"!", "=">>}

\* The lexeme sequences of the expressions with exactly n nodes.
RECURSIVE ExprTexts(_)
ExprTexts(n) ==
    IF n = 1 THEN {<<l>> : l \in LiteralLexemes}
    ELSE {<<<<"(">>>> \o e \o <<<<")">>>> : e \in ExprTexts(n - 1)}
         \cup {<<u>> \o e : u \in UnaryLexemes, e \in ExprTexts(n - 1)}
         \cup UNION {{l \o <<o>> \o r : l \in ExprTexts(i), o \in BinaryLexemes,
                                        r \in ExprTexts(n - 1 - i)} : i \in 1..(n - 2)}

\* Every text of ExprTexts(1) .. ExprTexts(MaxNodes), the outermost node
\* enumerated here instead of as one set.
EvalInit ==
    \/ \E lexemes \in WellFormedExamples : AtParse(lexemes)
    \/ \E l \in LiteralLexemes : AtParse(<<l>>)
    \/ \E n \in 2..MaxNodes : \E e \in ExprTexts(n - 1) :
           \/ AtParse(<<<<"(">>>> \o e \o <<<<")">>>>)
           \/ \E u \in UnaryLexemes : AtParse(<<u>> \o e)
    \/ \E n \in 3..MaxNodes : \E i \in 1..(n - 2) :
           \E l \in ExprTexts(i), o \in BinaryLexemes, r \in ExprTexts(n - 1 - i) :
               AtParse(l \o <<o>> \o r)

EvalNext == Parse \/ Interpret

EvalSpec == EvalInit /\ [][EvalNext]_vars


(***************************************************************************)
(* DisplaySpec: two trees, each of at most MaxDisplayNodes nodes over the   *)
(* literals and operators below, are formatted with "{}" one after the      *)
(* other.                                                                   *)
(***************************************************************************)
DisplayLiterals ==
    {Literal(TokenType("Number", NoStr, F64(1))),
     Literal(TokenType("Number", NoStr, F64(2))),
     Literal(TokenType("Number", NoStr, ParseF64(<<"1", ".", "5">>))),
     Literal(TokenType("True", NoStr, NoNum)),
     Literal(TokenType("False", NoStr, NoNum)),
     Literal(TokenType("Nil", NoStr, NoNum))}

DisplayUnaryOps ==
    {Token("Bang", NoStr, NoNum, <<"!">>, 1), Token("Minus", NoStr, NoNum, <<"-">>, 1)}

DisplayBinaryOps ==
    {Token("Minus", NoStr, NoNum, <<"-">>, 1), Token("Plus", NoStr, NoNum, <<"+">>, 1),
     Token("EqualEqual", NoStr, NoNum, <<"=", "=">>, 1)}

\* The trees of exactly n nodes.
RECURSIVE DisplayTrees(_)
DisplayTrees(n) ==
    IF n = 1 THEN DisplayLiterals
    ELSE {Grouping(e) : e \in DisplayTrees(n - 1)}
         \cup {Unary(o, e) : o \in DisplayUnaryOps, e \in DisplayTrees(n - 1)}
         \cup UNION {{Binary(l, o, r) : l \in DisplayTrees(i), o \in DisplayBinaryOps,
                                         r \in DisplayTrees(n - 1 - i)} : i \in 1..(n - 2)}

\* format!("{}", expr)
FormatExpr ==
    /\ pc = "display"
    /\ Len(printed) < 2
    /\ \E n \in 1..MaxDisplayNodes : \E e \in DisplayTrees(n) :
           printed' = Append(printed, [expr |-> e, text |-> Display(e)])
    /\ UNCHANGED <<source, scanner, parser, parsed, result, stderr, pc>>

DisplayInit ==
    /\ source = <<>>
    /\ scanner = ScannerFields(NewScanner)
    /\ parser = IdleParser
    /\ parsed = NotParsed
    /\ result = NotInterpreted
    /\ stderr = <<>>
    /\ pc = "display"
    /\ printed = <<>>

DisplayNext == FormatExpr

DisplaySpec == DisplayInit /\ [][DisplayNext]_vars

(***************************************************************************)
(* Vocabulary of the properties                                            *)
(***************************************************************************)
\* An operator token as the scanner makes it on line 1.
OpToken(token_type, lexeme) == Token(token_type, NoStr, NoNum, lexeme, 1)

NumberLiteral(i) == Literal(TokenType("Number", NoStr, F64(i)))

\* The precedence level of a binary operator: equality 1 < comparison 2 <
\* addition 3 < multiplication 4; 0 for anything that is no binary operator.
PrecedenceLevel(token_type) ==
    CASE token_type \in {"BangEqual", "EqualEqual"} -> 1
      [] token_type \in {"Greater", "GreaterEqual", "Less", "LessEqual"} -> 2
      [] token_type \in {"Minus", "Plus"} -> 3
      [] token_type \in {"Slash", "Star"} -> 4
      [] OTHER -> 0

\* Every node of e respects the precedence ladder and left associativity.
RECURSIVE RespectsLadder(_)
RespectsLadder(e) ==
    CASE e.node = "Literal" -> e.value.token_type \in {"Number", "Str", "True", "False", "Nil"}
      [] e.node = "Grouping" -> RespectsLadder(e.expression)
      [] e.node = "Unary" ->
           /\ e.op.token_type \in {"Bang", "Minus"}
           /\ e.right.node # "Binary"
           /\ RespectsLadder(e.right)
      [] e.node = "Binary" ->
           /\ PrecedenceLevel(e.op.token_type) > 0
           /\ e.right.node = "Binary" =>
                  PrecedenceLevel(e.right.op.token_type) > PrecedenceLevel(e.op.token_type)
           /\ e.left.node = "Binary" =>
                  PrecedenceLevel(e.left.op.token_type) >= PrecedenceLevel(e.op.token_type)
           /\ RespectsLadder(e.left)
           /\ RespectsLadder(e.right)
      [] OTHER -> FALSE

(***************************************************************************)
(* C5: whenever parse returns Ok it has consumed the whole token sequence: *)
(* no token remains unread after the returned expression.                  *)
(* The parser returns Ok with tokens left unread, e.g. on "1 )".           *)
(***************************************************************************)
C5_ParseConsumesAllTokens ==
    parsed.state = "Ok" => parser.reader = Len(parser.tokens)

(***************************************************************************)
(* C7: every tree parse returns respects the precedence ladder (equality < *)
(* comparison < addition < multiplication < unary) and left associativity: *)
(* the right child of a Binary of level L is never a non-grouped Binary of *)
(* level L or lower, its left child never a non-grouped Binary of a lower  *)
(* level, and a Unary's operand never a non-grouped Binary.  "1 - 2 - 3"   *)
(* parses to Binary(Binary(1,-,2),-,3); "1 + 2 * 3" parses to              *)
(* Binary(1,+,Binary(2,*,3)) and evaluates to 7.                           *)
(***************************************************************************)
C7_PrecedenceLadder ==
    /\ parsed.state = "Ok" => RespectsLadder(parsed.expr)
    /\ (parsed.state # "none" /\ source = Join(<< <<"1">>, <<"-">>, <<"2">>, <<"-">>, <<"3">> >>)) =>
           parsed = [state |-> "Ok",
                     expr |-> Binary(Binary(NumberLiteral(1), OpToken("Minus", <<"-">>),
                                            NumberLiteral(2)),
                                     OpToken("Minus", <<"-">>), NumberLiteral(3))]
    /\ (parsed.state # "none" /\ source = Join(<< <<"1">>, <<"+">>, <<"2">>, <<"*">>, <<"3">> >>)) =>
           /\ parsed = [state |-> "Ok",
                        expr |-> Binary(NumberLiteral(1), OpToken("Plus", <<"+">>),
                                        Binary(NumberLiteral(2), OpToken("Star", <<"*">>),
                                               NumberLiteral(3)))]
           /\ pc = "done" => result = [state |-> "Ok", val |-> BoxF64(F64(7)), token |-> NoToken]

\* C7's case: "1 + 2 * 3" has been parsed and evaluated.
C7_Witness ==
    /\ pc = "done"
    /\ source = Join(<< <<"1">>, <<"+">>, <<"2">>, <<"*">>, <<"3">> >>)
    /\ parsed.state = "Ok"
    /\ parsed.expr.right.node = "Binary"
    /\ result.state = "Ok"


(***************************************************************************)
(* C10: when the token sequence ends where an operand is required ("1 +",  *)
(* "-", "(", the empty sequence), parse fails, returns no tree, and an     *)
(* "Expected expression" diagnostic is reported; when a token that cannot  *)
(* start an operand stands at such a position ("1 + )"), parse fails with  *)
(* "Expected expression" reported against that token.                      *)
(* At the end of the input the parser fails without any diagnostic.        *)
(***************************************************************************)
\* What the grammar expects after the first k tokens: an "operand", an
\* "operator" (after a complete operand), or nothing, the prefix being
\* "illegal"; depth counts the parentheses still open.
RECURSIVE PrefixState(_, _)
PrefixState(toks, k) ==
    IF k = 0 THEN [expects |-> "operand", depth |-> 0]
    ELSE LET prev == PrefixState(toks, k - 1)
             tt   == toks[k].token_type
         IN  IF prev.expects = "illegal" THEN prev
             ELSE IF prev.expects = "operand"
             THEN IF tt \in {"True", "False", "Nil", "Number", "Str"}
                  THEN [prev EXCEPT !.expects = "operator"]
                  ELSE IF tt = "LeftParen" THEN [prev EXCEPT !.depth = prev.depth + 1]
                  ELSE IF tt \in {"Bang", "Minus"} THEN prev
                  ELSE [prev EXCEPT !.expects = "illegal"]
             ELSE IF PrecedenceLevel(tt) > 0 THEN [prev EXCEPT !.expects = "operand"]
                  ELSE IF tt = "RightParen" /\ prev.depth > 0
                  THEN [prev EXCEPT !.depth = prev.depth - 1]
                  ELSE [prev EXCEPT !.expects = "illegal"]

CanStartOperand(token_type) ==
    token_type \in {"True", "False", "Nil", "Number", "Str", "LeftParen", "Bang", "Minus"}

ExpectedExpressionAt(token) ==
    [line |-> token.line, location |-> <<" at '">> \o token.lexeme \o <<"'">>,
     message |-> "Expected expression."]

C10_ExpectedExpressionReported ==
    parsed.state # "none" =>
        /\ PrefixState(parser.tokens, Len(parser.tokens)).expects = "operand" =>
               /\ parsed = [state |-> "Err", expr |-> NoExpr]
               /\ \E i \in 1..Len(stderr) : stderr[i].message = "Expected expression."
        /\ \A k \in 0..(Len(parser.tokens) - 1) :
               (/\ PrefixState(parser.tokens, k).expects = "operand"
                /\ ~CanStartOperand(parser.tokens[k + 1].token_type)) =>
                   /\ parsed = [state |-> "Err", expr |-> NoExpr]
                   /\ stderr = <<ExpectedExpressionAt(parser.tokens[k + 1])>>

(***************************************************************************)
(* Runtime values as the specification names them.  The kind of an object  *)
(* is what its concrete type says: a boxed box is none of the four kinds.  *)
(***************************************************************************)
KindOf(object) ==
    CASE TypeIdOf(object) = "f64" -> "Number"
      [] TypeIdOf(object) = "String" -> "String"
      [] TypeIdOf(object) = "bool" -> "Bool"
      [] TypeIdOf(object) = "Option<bool>" -> (IF object.opt = "None" THEN "Nil" ELSE "Bool")
      [] OTHER -> "Box"

SpecKinds == {"Number", "String", "Bool", "Nil"}

BoolOf(object) == IF object.ty = "bool" THEN object.b ELSE object.opt = "Some(true)"

\* Same kind and equal by value.
SpecEqual(v, w) ==
    /\ KindOf(v) = KindOf(w)
    /\ CASE KindOf(v) = "Number" -> F64Eq(v.num, w.num)
         [] KindOf(v) = "String" -> v.str = w.str
         [] KindOf(v) = "Bool" -> BoolOf(v) = BoolOf(w)
         [] KindOf(v) = "Nil" -> TRUE
         [] OTHER -> v = w

\* The root of the parsed tree has been evaluated.
Evaluated == pc = "done" /\ parsed.state = "Ok"

(***************************************************************************)
(* C1: evaluating a Grouping node yields exactly the runtime value (same   *)
(* kind, same payload) its inner expression evaluates to, so a grouped     *)
(* Number is accepted as a Number operand by an enclosing operator:        *)
(* "(inner) * m" evaluates to the Number n*m whenever inner evaluates to   *)
(* the Number n, and "(1 + 2) * 3" evaluates to 9.                         *)
(* Grouping::interpret boxes the inner object once more, and no downcast   *)
(* of the enclosing operator accepts the box.                              *)
(***************************************************************************)
C1_GroupingYieldsInnerValue ==
    Evaluated =>
        /\ (parsed.expr.node = "Grouping" /\ interpret(parsed.expr.expression).ok) =>
               /\ result.state = "Ok"
               /\ KindOf(result.val) = KindOf(interpret(parsed.expr.expression).val)
               /\ result.val = interpret(parsed.expr.expression).val
        /\ (/\ parsed.expr.node = "Binary"
            /\ parsed.expr.op.token_type = "Star"
            /\ parsed.expr.left.node = "Grouping"
            /\ parsed.expr.right.node = "Literal"
            /\ parsed.expr.right.value.token_type = "Number"
            /\ interpret(parsed.expr.left.expression).ok
            /\ KindOf(interpret(parsed.expr.left.expression).val) = "Number") =>
               result = [state |-> "Ok",
                         val |-> BoxF64(F64Mul(interpret(parsed.expr.left.expression).val.num,
                                               parsed.expr.right.value.num)),
                         token |-> NoToken]
        /\ source = Join(<< <<"(">>, <<"1">>, <<"+">>, <<"2">>, <<")">>, <<"*">>, <<"3">> >>) =>
               result = [state |-> "Ok", val |-> BoxF64(F64(9)), token |-> NoToken]

(***************************************************************************)
(* C2: evaluating a Unary node with operator "!": when the operand         *)
(* evaluates to a Bool b the result is the Bool not-b ("!true" is false);  *)
(* when it evaluates to any other kind, evaluation fails with a runtime    *)
(* error carrying the "!" token.                                           *)
(* A true/false literal is an Option<bool>, which the downcast to bool     *)
(* rejects; a bool that is accepted is returned boxed and not negated.     *)
(***************************************************************************)
C2_BangNegatesBool ==
    (/\ Evaluated
     /\ parsed.expr.node = "Unary"
     /\ parsed.expr.op.token_type = "Bang"
     /\ interpret(parsed.expr.right).ok) =>
        IF KindOf(interpret(parsed.expr.right).val) = "Bool"
        THEN /\ result.state = "Ok"
             /\ KindOf(result.val) = "Bool"
             /\ BoolOf(result.val) = ~BoolOf(interpret(parsed.expr.right).val)
        ELSE /\ result.state = "Err"
             /\ result.token = parsed.expr.op

(***************************************************************************)
(* C3: for operands that both evaluate successfully, "left == right" never *)
(* fails and is a Bool, true exactly when the two values have the same     *)
(* kind (Bool, Nil, String, Number) and are equal by value; "left !=       *)
(* right" is its negation; whatever produced the operands, so              *)
(* "1 < 2 == 2 < 3" is true.                                               *)
(* A Bool made by a relational or equality operator is a bool, one made by *)
(* a literal an Option<bool>: none of the three comparisons sees a bool.   *)
(***************************************************************************)
C3_EqualityByKindAndValue ==
    (/\ Evaluated
     /\ parsed.expr.node = "Binary"
     /\ parsed.expr.op.token_type \in {"EqualEqual", "BangEqual"}
     /\ interpret(parsed.expr.left).ok
     /\ interpret(parsed.expr.right).ok) =>
        /\ result.state = "Ok"
        /\ KindOf(result.val) = "Bool"
        /\ (/\ KindOf(interpret(parsed.expr.left).val) \in SpecKinds
            /\ KindOf(interpret(parsed.expr.right).val) \in SpecKinds) =>
               (BoolOf(result.val) <=>
                    (parsed.expr.op.token_type = "EqualEqual" <=>
                         SpecEqual(interpret(parsed.expr.left).val,
                                   interpret(parsed.expr.right).val)))

(***************************************************************************)
(* C6: evaluating a Binary node with one of + - / * > >= < <= whose        *)
(* operands both evaluate successfully: "+" on two Strings is their        *)
(* concatenation, left then right; on two Numbers the result is the Number *)
(* of the arithmetic operation or the Bool of the comparison; every other  *)
(* combination of operand kinds fails with a runtime error carrying the    *)
(* node's operator token.                                                  *)
(***************************************************************************)
C6_Expected(op, l, r) ==
    IF op.token_type = "Plus" /\ KindOf(l) = "String" /\ KindOf(r) = "String"
    THEN [state |-> "Ok", val |-> BoxString(l.str \o r.str), token |-> NoToken]
    ELSE IF KindOf(l) = "Number" /\ KindOf(r) = "Number"
    THEN [state |-> "Ok",
          val |-> CASE op.token_type = "Plus" -> BoxF64(F64Add(l.num, r.num))
                    [] op.token_type = "Minus" -> BoxF64(F64Sub(l.num, r.num))
                    [] op.token_type = "Slash" -> BoxF64(F64Div(l.num, r.num))
                    [] op.token_type = "Star" -> BoxF64(F64Mul(l.num, r.num))
                    [] op.token_type = "Greater" -> BoxBool(F64Gt(l.num, r.num))
                    [] op.token_type = "GreaterEqual" -> BoxBool(F64Ge(l.num, r.num))
                    [] op.token_type = "Less" -> BoxBool(F64Lt(l.num, r.num))
                    [] op.token_type = "LessEqual" -> BoxBool(F64Le(l.num, r.num)),
          token |-> NoToken]
    ELSE [state |-> "Err", val |-> NoObject, token |-> op]

C6_ArithmeticByKind ==
    (/\ Evaluated
     /\ parsed.expr.node = "Binary"
     /\ parsed.expr.op.token_type \in {"Plus", "Minus", "Slash", "Star",
                                       "Greater", "GreaterEqual", "Less", "LessEqual"}
     /\ interpret(parsed.expr.left).ok
     /\ interpret(parsed.expr.right).ok) =>
        result = C6_Expected(parsed.expr.op, interpret(parsed.expr.left).val,
                             interpret(parsed.expr.right).val)

\* C6's case: "+" has concatenated two Strings.
C6_Witness ==
    /\ Evaluated
    /\ parsed.expr.node = "Binary"
    /\ parsed.expr.op.token_type = "Plus"
    /\ parsed.expr.left.node = "Literal"
    /\ parsed.expr.left.value.token_type = "Str"
    /\ parsed.expr.right.node = "Literal"
    /\ parsed.expr.right.value.token_type = "Str"
    /\ result.state = "Ok"
    /\ KindOf(result.val) = "String"
    /\ result.val.str = parsed.expr.left.value.str \o parsed.expr.right.value.str


(***************************************************************************)
(* The scanner's steps.  A step of scan_tokens' loop starts at the         *)
(* character source[scanner.reader + 1] and ends where the next one        *)
(* starts.                                                                 *)
(***************************************************************************)
\* The step about to be taken dispatches on character c.
ScanStepAt(c) ==
    /\ pc = "scan"
    /\ scanner.reader < Len(source)
    /\ source[scanner.reader + 1] = c

\* The positions after i where character c stands.
PositionsAfter(i, c) == {j \in (i + 1)..Len(source) : source[j] = c}

First(S) == CHOOSE j \in S : \A k \in S : j <= k

NewlinesBefore(i) == Cardinality({j \in 1..(i - 1) : source[j] = "\n"})

(***************************************************************************)
(* C4: scanning a string literal that is closed (an opening quote, an      *)
(* interior without a quote that may hold newlines anywhere, a closing     *)
(* quote) emits exactly one String token whose lexeme is the interior      *)
(* text, and scanning resumes at the character after the closing quote;    *)
(* when the input ends before a closing quote, no token is emitted.        *)
(* make_string consumes one more character after a newline, whatever it    *)
(* is: a closing quote that directly follows a newline is not seen.        *)
(***************************************************************************)
C4_StringLiteralScanned ==
    [][ScanStepAt("\"") =>
           IF PositionsAfter(scanner.reader + 1, "\"") # {}
           THEN /\ Len(scanner'.tokens) = Len(scanner.tokens) + 1
                /\ SubSeq(scanner'.tokens, 1, Len(scanner.tokens)) = scanner.tokens
                /\ scanner'.tokens[Len(scanner'.tokens)].token_type = "Str"
                /\ scanner'.tokens[Len(scanner'.tokens)].lexeme =
                       SubSeq(source, scanner.reader + 2,
                              First(PositionsAfter(scanner.reader + 1, "\"")) - 1)
                /\ scanner'.reader = First(PositionsAfter(scanner.reader + 1, "\""))
           ELSE scanner'.tokens = scanner.tokens]_vars

(***************************************************************************)
(* C8: scanning "/": followed by a second "/", the characters up to the    *)
(* next newline or the end of the input are skipped and no token is        *)
(* produced; in every other case, "/" followed by another character or "/" *)
(* as the last character of the input, exactly one Slash token is emitted  *)
(* and no lexical error is reported.                                       *)
(* At the end of the input the scanner reports "Unexpected EOF" and emits  *)
(* nothing.                                                                *)
(***************************************************************************)
C8_SlashScanned ==
    [][ScanStepAt("/") =>
           IF scanner.reader + 2 <= Len(source) /\ source[scanner.reader + 2] = "/"
           THEN /\ scanner'.tokens = scanner.tokens
                /\ stderr' = stderr
                /\ IF PositionsAfter(scanner.reader + 2, "\n") = {}
                   THEN scanner'.reader = Len(source)
                   ELSE scanner'.reader \in
                            {First(PositionsAfter(scanner.reader + 2, "\n")) - 1,
                             First(PositionsAfter(scanner.reader + 2, "\n"))}
           ELSE /\ Len(scanner'.tokens) = Len(scanner.tokens) + 1
                /\ SubSeq(scanner'.tokens, 1, Len(scanner.tokens)) = scanner.tokens
                /\ scanner'.tokens[Len(scanner'.tokens)].token_type = "Slash"
                /\ scanner'.tokens[Len(scanner'.tokens)].lexeme = <<"/">>
                /\ scanner'.reader = scanner.reader + 1
                /\ stderr' = stderr]_vars

(***************************************************************************)
(* C9: every token the scanner emits carries as its line 1 plus the number *)
(* of newlines that stand in the source before the token's first           *)
(* character: also a String token spanning lines, a token after a string   *)
(* holding several newlines, and a token after a "//" comment.             *)
(* add_token stamps the line reached when the token ends, and make_string  *)
(* does not count a newline it consumes as the character after a newline.  *)
(***************************************************************************)
C9_TokenLineIsStartLine ==
    [][(pc = "scan" /\ Len(scanner'.tokens) > Len(scanner.tokens)) =>
           scanner'.tokens[Len(scanner'.tokens)].line =
               1 + NewlinesBefore(scanner.reader + 1)]_vars


(***************************************************************************)
(* C11: whenever a token that can start a primary (a Number, a String,     *)
(* true, false, nil, "(" or an identifier) directly follows a complete     *)
(* operand or binary sub-expression with no operator in between ("1 2",    *)
(* "(1) 2", "1 + 2 (3)", "1 foo"), parse fails and returns no tree, and    *)
(* the diagnostics written are exactly one "Unexpected Expression" against *)
(* that token: nothing is reported after it.                               *)
(***************************************************************************)
StartsPrimary(token_type) ==
    token_type \in {"True", "False", "Nil", "Number", "Str", "LeftParen", "Identifier"}

UnexpectedExpressionAt(token) ==
    [line |-> token.line, location |-> <<" at '">> \o token.lexeme \o <<"'">>,
     message |-> "Unexpected Expression"]

\* Token k + 1 stands directly after a complete operand and starts a primary.
AdjacentPrimaryAt(toks, k) ==
    /\ k + 1 <= Len(toks)
    /\ PrefixState(toks, k).expects = "operator"
    /\ StartsPrimary(toks[k + 1].token_type)

C11_UnexpectedExpressionIsFatal ==
    parsed.state # "none" =>
        \A k \in 1..(Len(parser.tokens) - 1) :
            AdjacentPrimaryAt(parser.tokens, k) =>
                /\ parsed = [state |-> "Err", expr |-> NoExpr]
                /\ stderr = <<UnexpectedExpressionAt(parser.tokens[k + 1])>>
                /\ pc = "done"
                /\ result = NotInterpreted

\* C11's case: a "(" directly after the binary sub-expression "1 + 2" has
\* been rejected, with tokens left after it.
C11_Witness ==
    /\ parsed.state = "Err"
    /\ \E k \in 3..(Len(parser.tokens) - 2) :
           /\ AdjacentPrimaryAt(parser.tokens, k)
           /\ parser.tokens[k + 1].token_type = "LeftParen"
           /\ parser.tokens[k - 1].token_type = "Plus"
    /\ Len(stderr) = 1
    /\ stderr[1].message = "Unexpected Expression"


(***************************************************************************)
(* C12: the text of a tree reflects the tree: a Binary is written          *)
(* "(op left right)", a Unary "(op right)", a Grouping "(group inner)",    *)
(* and the text identifies the tree: two trees that differ in shape, in an *)
(* operator, or in a literal value among Number, true, false and nil never *)
(* have the same text.                                                     *)
(* Display for Literal writes nothing for true, false and nil.             *)
(***************************************************************************)
ReflectsNode(e, text) ==
    CASE e.node = "Binary" ->
             text = <<"(">> \o e.op.lexeme \o <<" ">> \o Display(e.left) \o <<" ">>
                        \o Display(e.right) \o <<")">>
      [] e.node = "Unary" ->
             text = <<"(">> \o e.op.lexeme \o <<" ">> \o Display(e.right) \o <<")">>
      [] e.node = "Grouping" ->
             text = <<"(", "g", "r", "o", "u", "p", " ">> \o Display(e.expression) \o <<")">>
      [] OTHER -> TRUE

C12_DisplayIdentifiesTree ==
    /\ \A i \in 1..Len(printed) : ReflectsNode(printed[i].expr, printed[i].text)
    /\ \A i, j \in 1..Len(printed) :
           printed[i].text = printed[j].text => printed[i].expr = printed[j].expr


(***************************************************************************)
(* C13: scan_tokens terminates with every character consumed.  Each        *)
(* scan_token step consumes at least one character and never reads past    *)
(* the end, so the characters left decrease to zero; the scan ends only    *)
(* when none is left; a step that reports a lexical error (unexpected      *)
(* character, unterminated string, number ending in '.') adds no token and *)
(* leaves the scan running; a step keeps the tokens found before it, in    *)
(* order, and adds at most one; an unexpected character costs exactly that *)
(* character; and "1 @ 2" yields exactly the tokens Number 1 and Number 2. *)
(***************************************************************************)
UnexpectedCharacters == {"@"}

C13_ScanStep ==
    pc = "scan" /\ scanner' # scanner =>
        /\ scanner.reader < scanner'.reader
        /\ scanner'.reader <= Len(source)
        /\ Len(scanner.tokens) <= Len(scanner'.tokens)
        /\ Len(scanner'.tokens) <= Len(scanner.tokens) + 1
        /\ SubSeq(scanner'.tokens, 1, Len(scanner.tokens)) = scanner.tokens
        /\ SubSeq(stderr', 1, Len(stderr)) = stderr
        /\ Len(stderr') > Len(stderr) => scanner'.tokens = scanner.tokens /\ pc' = "scan"
        /\ source[scanner.reader + 1] \in UnexpectedCharacters =>
               /\ scanner'.reader = scanner.reader + 1
               /\ stderr' = Append(stderr, [line |-> scanner.line, location |-> <<>>,
                                            message |-> "Unexpected character."])

C13_ScanTerminatesConsumingAll ==
    /\ [][C13_ScanStep]_vars
    /\ [](pc # "scan" => scanner.reader = Len(source))
    /\ []((pc # "scan" /\ source = <<"1", " ", "@", " ", "2">>) =>
              /\ scanner.tokens = <<Token("Number", NoStr, F64(1), <<"1">>, 1),
                                    Token("Number", NoStr, F64(2), <<"2">>, 1)>>
              /\ pc = "new_parser" =>
                     stderr = <<[line |-> 1, location |-> <<>>,
                                 message |-> "Unexpected character."]>>)

\* C13's case: the scan of "1 @ 2" has ended, past the error, with a token
\* found before it and one found after it.
C13_Witness ==
    /\ pc = "new_parser"
    /\ source = <<"1", " ", "@", " ", "2">>
    /\ scanner.reader = Len(source)
    /\ Len(scanner.tokens) = 2
    /\ Len(stderr) = 1


(***************************************************************************)
(* C14: evaluation is a left-to-right post-order walk that stops at the    *)
(* first failing node.  When the left operand of a Binary fails, no node   *)
(* of the right operand is evaluated and the Binary returns that same      *)
(* failure; when the left succeeds and the right fails, it returns the     *)
(* right's failure; a Unary or a Grouping whose operand fails returns that *)
(* same failure.  So the error of a whole tree carries the operator token  *)
(* of the first node, in post-order, whose operand kinds were rejected,    *)
(* and no value comes with it.                                             *)
(***************************************************************************)
\* The nodes of a tree, left to right, operands before their node.
RECURSIVE PostOrder(_)
PostOrder(e) ==
    CASE e.node = "Literal" -> <<e>>
      [] e.node = "Grouping" -> Append(PostOrder(e.expression), e)
      [] e.node = "Unary" -> Append(PostOrder(e.right), e)
      [] e.node = "Binary" -> Append(PostOrder(e.left) \o PostOrder(e.right), e)

\* Node e fails though each of its operands evaluates: it rejects their kinds.
RejectsOperands(e) ==
    /\ ~interpret(e).ok
    /\ CASE e.node = "Literal" -> FALSE
         [] e.node = "Grouping" -> FALSE
         [] e.node = "Unary" -> interpret(e.right).ok
         [] e.node = "Binary" -> interpret(e.left).ok /\ interpret(e.right).ok

Rejecting(e) == {i \in 1..Len(PostOrder(e)) : RejectsOperands(PostOrder(e)[i])}

\* The calls follow the post-order up to its f-th node, and past it only the
\* enclosing nodes return, each with the failure: nothing else is evaluated.
StopsAt(calls, order, f) ==
    /\ f <= Len(calls)
    /\ SubSeq(calls, 1, f) = SubSeq(order, 1, f)
    /\ \A i \in (f + 1)..Len(calls) :
           /\ calls[i].node # "Literal"
           /\ ~interpret(calls[i]).ok
           /\ interpret(calls[i]).token = interpret(order[f]).token

\* What run_file holds of a result.
Returned(r) == [state |-> IF r.ok THEN "Ok" ELSE "Err", val |-> r.val, token |-> r.token]

C14_FirstFailureWins ==
    Evaluated =>
        /\ parsed.expr.node = "Binary" =>
               /\ ~interpret(parsed.expr.left).ok =>
                      /\ result = Returned(interpret(parsed.expr.left))
                      /\ interpret(parsed.expr).calls =
                             Append(interpret(parsed.expr.left).calls, parsed.expr)
               /\ interpret(parsed.expr.left).ok =>
                      /\ interpret(parsed.expr).calls =
                             Append(interpret(parsed.expr.left).calls
                                        \o interpret(parsed.expr.right).calls, parsed.expr)
                      /\ ~interpret(parsed.expr.right).ok =>
                             result = Returned(interpret(parsed.expr.right))
        /\ (parsed.expr.node = "Unary" /\ ~interpret(parsed.expr.right).ok) =>
               result = Returned(interpret(parsed.expr.right))
        /\ (parsed.expr.node = "Grouping" /\ ~interpret(parsed.expr.expression).ok) =>
               result = Returned(interpret(parsed.expr.expression))
        /\ IF Rejecting(parsed.expr) = {}
           THEN /\ result.state = "Ok"
                /\ interpret(parsed.expr).calls = PostOrder(parsed.expr)
           ELSE /\ result.state = "Err"
                /\ result.val = NoObject
                /\ result.token =
                       PostOrder(parsed.expr)[First(Rejecting(parsed.expr))].op
                /\ StopsAt(interpret(parsed.expr).calls, PostOrder(parsed.expr),
                           First(Rejecting(parsed.expr)))

\* C14's case: the left operand of the root has failed, the right operand
\* would fail with another token, and the root has returned.
C14_Witness ==
    /\ Evaluated
    /\ parsed.expr.node = "Binary"
    /\ ~interpret(parsed.expr.left).ok
    /\ ~interpret(parsed.expr.right).ok
    /\ interpret(parsed.expr.left).token # interpret(parsed.expr.right).token
    /\ result.state = "Err"
    /\ result.token = interpret(parsed.expr.left).token

=============================================================================
